---- MODULE Spec2Model ----
(***************************************************************************)
(* Expense splitting of the BatchHub backend: the Expense collection, the  *)
(* back-reference list Event.expenses and the five request handlers of     *)
(* routes/expenses.js (list, create, summary, pay, delete).                *)
(*                                                                         *)
(* Every handler is a pure operator from (store, request) to (store,       *)
(* response), written branch by branch as the JavaScript; an action picks  *)
(* a request and applies the handler.  Amounts are integers (the schema    *)
(* stores Numbers; the model does not cover rounding of fractions).  Of a  *)
(* document the model keeps the paths the handlers read: amount, paidBy,   *)
(* splitBetween, community, event and createdAt.  Every request is         *)
(* authenticated (isAuthenticated has let it through with req.user set).   *)
(*                                                                         *)
(* Spec serves the requests one after the other; SpecWide does so with     *)
(* further create bodies and clock readings; SpecConc follows one request  *)
(* through its awaits; SpecWhole runs two PUT pay over a store that        *)
(* replaces whole documents.  SpecPoll and SpecThread serve the vote       *)
(* requests of routes/notes.js on polls and threads one after the other.   *)
(***************************************************************************)
EXTENDS Integers, Sequences, FiniteSets, TLC

\* ------------------------------------------------------------------ data
\* ObjectIds of the User documents that issue requests.
Users == {"A", "B", "C"}

\* The Community collection; the expense routes never write it.  C is a
\* user outside community c1: the routes accept C as a debtor and as a
\* requester of everything but POST /create for c1.  C is the one member of
\* a second community c2.
Communities == [c1 |-> [members |-> {"A", "B"}], c2 |-> [members |-> {"C"}]]

\* An absent request field / an unset document path (JavaScript undefined).
Undefined == "undefined"

\* Number of Expense documents ever created (ids are 1..MaxExpenses).
MaxExpenses == 2

\* The same, where requests overlap at their awaits (SpecConc).
MaxOverlapExpenses == 1

\* Request bodies tried by POST /create.
AmountInputs == {100}
CommunityInputs == {"c1"}
EventInputs == {Undefined, "e1"}

Share(u, a) == [user |-> u, amount |-> a]

\* splitBetween lists tried by POST /create (the route stores them as sent,
\* an isPaid sent by the client included).
SplitInputs == { <<Share("B", 50), Share("C", 50)>>,
                 <<Share("A", 30)>>,
                 <<[user |-> "A", amount |-> 30, isPaid |-> TRUE]>> }

\* Further request bodies of POST /create: an amount of zero, one debtor
\* listed twice, a community other than the named event's, a negative
\* amount, and a community that does not exist.
WideInputs ==
    { [amount |-> 100, communityId |-> "c1", eventId |-> "e1",
       splitBetween |-> <<Share("B", 50), Share("C", 50)>>],
      [amount |-> 0, communityId |-> "c1", eventId |-> Undefined,
       splitBetween |-> <<Share("A", 30)>>],
      [amount |-> 100, communityId |-> "c1", eventId |-> Undefined,
       splitBetween |-> <<Share("B", 30), Share("B", 70)>>],
      [amount |-> 100, communityId |-> "c2", eventId |-> "e1",
       splitBetween |-> <<Share("A", 100)>>],
      [amount |-> -1, communityId |-> "c1", eventId |-> Undefined,
       splitBetween |-> <<Share("A", 30)>>],
      [amount |-> 100, communityId |-> "c9", eventId |-> Undefined,
       splitBetween |-> <<Share("A", 30)>>] }

\* Query strings tried by GET / and GET /summary.
QueryInputs == [communityId : {Undefined, "c1", "c2"}, eventId : {Undefined, "e1"}]

ExpenseIds == 1..MaxExpenses

VARIABLES
    expenses,   \* the Expense collection: _id -> document
    events,     \* the Event collection: _id -> [community, expenses]
    nextId,     \* the next _id an Expense document gets
    response,   \* the request served last and what was sent back
    pending,    \* a request suspended at an await between two database calls
    polls,      \* the Poll collection: _id -> [options, multipleChoice, endsAt]
    threads,    \* the Thread collection: _id -> [upvotes, downvotes]
    date        \* the server's clock, what "new Date()" gives

vars == <<expenses, events, nextId, response, pending, polls, threads, date>>

\* No request is suspended.
NoRequest == [op |-> "none"]

\* ------------------------------------------------------------- helpers
\* Ids of a set in ascending order (insertion order of the collection).
RECURSIVE Ascending(_)
Ascending(S) ==
    IF S = {} THEN <<>>
    ELSE LET m == CHOOSE x \in S : \A y \in S : x <= y
         IN <<m>> \o Ascending(S \ {m})

\* Expense.find(query): the ids of the documents matching the query object,
\* in natural order.  A query without keys matches every document.
Matches(doc, query) ==
    /\ ("event" \in DOMAIN query) => doc.event = query.event
    /\ ("community" \in DOMAIN query) => doc.community = query.community

Find(exps, query) ==
    Ascending({id \in DOMAIN exps : Matches(exps[id], query)})

\* A document removed from a collection.
Without(f, id) == [i \in DOMAIN f \ {id} |-> f[i]]

\* ------------------------------------------------- GET /summary (86-141)
\* if (!balances[key]) balances[key] = 0; balances[key] += delta
BalancesAdd(balances, key, delta) ==
    LET b == IF key \notin DOMAIN balances \/ balances[key] = 0
             THEN (key :> 0) @@ balances
             ELSE balances
    IN [b EXCEPT ![key] = @ + delta]

\* Fault: the paid-side loop without its !split.isPaid test.
RECURSIVE PaidSplitsSettledToo(_, _, _)
PaidSplitsSettledToo(splits, userId, balances) ==
    IF splits = <<>> THEN balances
    ELSE LET split == Head(splits)
         IN PaidSplitsSettledToo(Tail(splits), userId,
                IF split.user # userId
                THEN BalancesAdd(balances, split.user, split.amount)
                ELSE balances)

\* Fault: the paid-side loop without its !split.user.equals(userId) test.
RECURSIVE PaidSplitsOwnToo(_, _, _)
PaidSplitsOwnToo(splits, userId, balances) ==
    IF splits = <<>> THEN balances
    ELSE LET split == Head(splits)
         IN PaidSplitsOwnToo(Tail(splits), userId,
                IF ~split.isPaid
                THEN BalancesAdd(balances, split.user, split.amount)
                ELSE balances)

\* "If user paid": the inner forEach over expense.splitBetween (109-116).
RECURSIVE PaidSplits(_, _, _)
PaidSplits(splits, userId, balances) ==
    IF splits = <<>> THEN balances
    ELSE LET split == Head(splits)
         IN PaidSplits(Tail(splits), userId,
                IF split.user # userId /\ ~split.isPaid
                THEN BalancesAdd(balances, split.user, split.amount)
                ELSE balances)

\* Fault: the owed-side loop adding to balances[paidBy] instead of subtracting.
RECURSIVE OwedSplitsAdded(_, _, _, _)
OwedSplitsAdded(splits, paidBy, userId, acc) ==
    IF splits = <<>> THEN acc
    ELSE LET split == Head(splits)
         IN OwedSplitsAdded(Tail(splits), paidBy, userId,
                IF split.user = userId /\ paidBy # userId /\ ~split.isPaid
                THEN [totalOwed |-> acc.totalOwed + split.amount,
                      balances  |-> BalancesAdd(acc.balances, paidBy, split.amount)]
                ELSE acc)

\* Fault: the owed-side loop without its !split.isPaid test.
RECURSIVE OwedSplitsSettledToo(_, _, _, _)
OwedSplitsSettledToo(splits, paidBy, userId, acc) ==
    IF splits = <<>> THEN acc
    ELSE LET split == Head(splits)
         IN OwedSplitsSettledToo(Tail(splits), paidBy, userId,
                IF split.user = userId /\ paidBy # userId
                THEN [totalOwed |-> acc.totalOwed + split.amount,
                      balances  |-> BalancesAdd(acc.balances, paidBy, -split.amount)]
                ELSE acc)

\* Fault: the owed-side loop adding to totalOwed and leaving balances alone.
RECURSIVE OwedSplitsTotalOnly(_, _, _, _)
OwedSplitsTotalOnly(splits, paidBy, userId, acc) ==
    IF splits = <<>> THEN acc
    ELSE LET split == Head(splits)
         IN OwedSplitsTotalOnly(Tail(splits), paidBy, userId,
                IF split.user = userId /\ paidBy # userId /\ ~split.isPaid
                THEN [totalOwed |-> acc.totalOwed + split.amount,
                      balances  |-> acc.balances]
                ELSE acc)

\* "If user owes": the second forEach over expense.splitBetween (120-129).
\* acc is [totalOwed, balances].
RECURSIVE OwedSplits(_, _, _, _)
OwedSplits(splits, paidBy, userId, acc) ==
    IF splits = <<>> THEN acc
    ELSE LET split == Head(splits)
         IN OwedSplits(Tail(splits), paidBy, userId,
                IF split.user = userId /\ paidBy # userId /\ ~split.isPaid
                THEN [totalOwed |-> acc.totalOwed + split.amount,
                      balances  |-> BalancesAdd(acc.balances, paidBy, -split.amount)]
                ELSE acc)

\* Fault: totalPaid counting an expense only while one of its splits is unpaid.
SummaryStepOutstanding(expense, userId, acc) ==
    LET paid == expense.paidBy = userId
        open == \E i \in DOMAIN expense.splitBetween : ~expense.splitBetween[i].isPaid
        b1   == IF paid THEN PaidSplits(expense.splitBetween, userId, acc.balances)
                        ELSE acc.balances
        o    == OwedSplits(expense.splitBetween, expense.paidBy, userId,
                           [totalOwed |-> acc.totalOwed, balances |-> b1])
    IN [totalPaid |-> IF paid /\ open THEN acc.totalPaid + expense.amount
                                      ELSE acc.totalPaid,
        totalOwed |-> o.totalOwed,
        balances  |-> o.balances]

\* One turn of expenses.forEach (104-130).
SummaryStep(expense, userId, acc) ==
    LET paid == expense.paidBy = userId
        b1   == IF paid THEN PaidSplits(expense.splitBetween, userId, acc.balances)
                        ELSE acc.balances
        o    == OwedSplits(expense.splitBetween, expense.paidBy, userId,
                           [totalOwed |-> acc.totalOwed, balances |-> b1])
    IN [totalPaid |-> IF paid THEN acc.totalPaid + expense.amount ELSE acc.totalPaid,
        totalOwed |-> o.totalOwed,
        balances  |-> o.balances]

RECURSIVE SummaryLoop(_, _, _, _)
SummaryLoop(exps, ids, userId, acc) ==
    IF ids = <<>> THEN acc
    ELSE SummaryLoop(exps, Tail(ids), userId, SummaryStep(exps[Head(ids)], userId, acc))

\* The query object of GET /summary (90-96): no else branch, so a request
\* without identifiers queries with {}.
SummaryQuery(q) ==
    IF q.eventId # Undefined THEN [event |-> q.eventId]
    ELSE IF q.communityId # Undefined THEN [community |-> q.communityId]
    ELSE <<>>

\* The JSON body of GET /summary for req.user = userId.
Summary(exps, q, userId) ==
    LET acc == SummaryLoop(exps, Find(exps, SummaryQuery(q)), userId,
                           [totalPaid |-> 0, totalOwed |-> 0, balances |-> <<>>])
    IN [totalPaid  |-> acc.totalPaid,
        totalOwed  |-> acc.totalOwed,
        netBalance |-> acc.totalPaid - acc.totalOwed,
        balances   |-> acc.balances]

\* Fault: the summary settles the shares it has read.
SummaryHandlerSettles(exps, evts, q, userId) ==
    [status |-> 200, body |-> Summary(exps, q, userId),
     expenses |-> [id \in DOMAIN exps |->
                    [exps[id] EXCEPT !.splitBetween =
                        [i \in DOMAIN @ |-> [@[i] EXCEPT !.isPaid = TRUE]]]],
     events |-> evts]

SummaryHandler(exps, evts, q, userId) ==
    [status |-> 200, body |-> Summary(exps, q, userId), expenses |-> exps, events |-> evts]

\* ------------------------------------------------------- GET / (9-31)
\* The arrays that hold each member of ids once.
Arrangements(ids) ==
    { s \in [1..Cardinality(ids) -> ids] : \A id \in ids : \E k \in DOMAIN s : s[k] = id }

\* Fault: .sort('createdAt'), the oldest document first.
SortOldestFirst(exps, found) ==
    { s \in Arrangements({ found[k] : k \in DOMAIN found }) :
        \A k \in DOMAIN s :
            k < Len(s) => exps[s[k]].createdAt <= exps[s[k + 1]].createdAt }

\* .sort('-createdAt'): the documents by descending createdAt.  The order of
\* documents created in the same millisecond is whatever the database
\* yields, so the sort has several possible outcomes.
SortNewestFirst(exps, found) ==
    { s \in Arrangements({ found[k] : k \in DOMAIN found }) :
        \A k \in DOMAIN s :
            k < Len(s) => exps[s[k]].createdAt >= exps[s[k + 1]].createdAt }

\* Fault: the query left without keys when no identifier is sent, as GET
\* /summary leaves it.
ListHandlerUnscoped(exps, evts, q) ==
    { [status |-> 200, body |-> sorted, expenses |-> exps, events |-> evts] :
        sorted \in SortNewestFirst(exps, Find(exps,
            IF q.eventId # Undefined THEN [event |-> q.eventId]
            ELSE IF q.communityId # Undefined THEN [community |-> q.communityId]
            ELSE <<>>)) }

\* The responses the handler can send: one for each outcome of the sort.
ListHandler(exps, evts, q) ==
    IF q.eventId # Undefined
    THEN { [status |-> 200, body |-> sorted, expenses |-> exps, events |-> evts] :
            sorted \in SortNewestFirst(exps, Find(exps, [event |-> q.eventId])) }
    ELSE IF q.communityId # Undefined
    THEN { [status |-> 200, body |-> sorted, expenses |-> exps, events |-> evts] :
            sorted \in SortNewestFirst(exps, Find(exps, [community |-> q.communityId])) }
    ELSE { [status |-> 400, body |-> "Community or event ID required",
            expenses |-> exps, events |-> evts] }

\* ------------------------------------- PUT /:expenseId/pay/:userId (144-173)
\* expense.splitBetween.find(s => s.user.toString() === userId): the index of
\* the first match, 0 when there is none.
FindSplit(splits, userId) ==
    IF \E i \in DOMAIN splits : splits[i].user = userId
    THEN CHOOSE i \in DOMAIN splits :
            /\ splits[i].user = userId
            /\ \A j \in DOMAIN splits : splits[j].user = userId => i <= j
    ELSE 0

\* Fault: the flag set on the in-memory document and never saved.
SetPaidUnsaved(exps, expenseId, i) == exps

\* Fault: the flag toggled instead of set.
SetPaidToggle(exps, expenseId, i) ==
    [exps EXCEPT ![expenseId].splitBetween[i].isPaid = ~@]

\* Fault: the split list rewritten with only the chosen split paid.
SetPaidOnly(exps, expenseId, i) ==
    [exps EXCEPT ![expenseId].splitBetween =
        [j \in DOMAIN @ |-> [@[j] EXCEPT !.isPaid = (j = i)]]]

\* split.isPaid = true; await expense.save()
SetPaid(exps, expenseId, i) ==
    [exps EXCEPT ![expenseId].splitBetween[i].isPaid = TRUE]

\* Fault: any debtor of the expense may settle any of its splits.
MayPayAnyDebtor(expense, split, user) ==
    \/ expense.paidBy = user
    \/ \E j \in DOMAIN expense.splitBetween : expense.splitBetween[j].user = user

\* The pay permission test (162).
MayPay(expense, split, user) ==
    expense.paidBy = user \/ split.user = user

\* Fault: the permission test moved in front of the split lookup.
PayHandlerChecksFirst(exps, evts, expenseId, userId, user) ==
    IF expenseId \notin DOMAIN exps
    THEN [status |-> 404, body |-> "Expense not found", expenses |-> exps, events |-> evts]
    ELSE LET expense == exps[expenseId]
             i == FindSplit(expense.splitBetween, userId)
         IN IF expense.paidBy # user /\ userId # user
            THEN [status |-> 403, body |-> "Permission denied",
                  expenses |-> exps, events |-> evts]
            ELSE IF i = 0
            THEN [status |-> 404, body |-> "User not found in expense split",
                  expenses |-> exps, events |-> evts]
            ELSE [status |-> 200, body |-> "Marked as paid",
                  expenses |-> SetPaid(exps, expenseId, i), events |-> evts]

PayHandler(exps, evts, expenseId, userId, user) ==
    IF expenseId \notin DOMAIN exps
    THEN [status |-> 404, body |-> "Expense not found", expenses |-> exps, events |-> evts]
    ELSE LET expense == exps[expenseId]
             i == FindSplit(expense.splitBetween, userId)
         IN IF i = 0
            THEN [status |-> 404, body |-> "User not found in expense split",
                  expenses |-> exps, events |-> evts]
            ELSE IF ~MayPay(expense, expense.splitBetween[i], user)
            THEN [status |-> 403, body |-> "Permission denied",
                  expenses |-> exps, events |-> evts]
            ELSE [status |-> 200, body |-> "Marked as paid",
                  expenses |-> SetPaid(exps, expenseId, i), events |-> evts]

\* ------------------------------------------- DELETE /:expenseId (176-200)
\* Event.findByIdAndUpdate(id, {$pull: {expenses: expenseId}}): every
\* occurrence goes; an unknown event id updates nothing.
RECURSIVE Pull(_, _)
Pull(list, x) ==
    IF list = <<>> THEN <<>>
    ELSE IF Head(list) = x THEN Pull(Tail(list), x)
    ELSE <<Head(list)>> \o Pull(Tail(list), x)

\* Fault: the $pull left out.
PullExpenseNever(evts, eventId, expenseId) == evts

PullExpense(evts, eventId, expenseId) ==
    IF eventId \in DOMAIN evts
    THEN [evts EXCEPT ![eventId].expenses = Pull(@, expenseId)]
    ELSE evts

\* Fault: a debtor of the expense may delete it too.
MayDeleteDebtor(expense, user) ==
    \/ expense.paidBy = user
    \/ \E j \in DOMAIN expense.splitBetween : expense.splitBetween[j].user = user

\* The delete permission test (184).
MayDelete(expense, user) == expense.paidBy = user

DeleteHandler(exps, evts, expenseId, user) ==
    IF expenseId \notin DOMAIN exps
    THEN [status |-> 404, body |-> "Expense not found", expenses |-> exps, events |-> evts]
    ELSE LET expense == exps[expenseId]
         IN IF ~MayDelete(expense, user)
            THEN [status |-> 403, body |-> "Only the creator can delete this expense",
                  expenses |-> exps, events |-> evts]
            ELSE [status |-> 200, body |-> "Expense deleted successfully",
                  expenses |-> Without(exps, expenseId),
                  events |-> IF expense.event # Undefined
                             THEN PullExpense(evts, expense.event, expenseId)
                             ELSE evts]

\* ------------------------------------------------ POST /create (34-83)
\* The splitBetween sub-schema: isPaid defaults to false.
NewSplits(splits) ==
    [i \in DOMAIN splits |->
        [user   |-> splits[i].user,
         amount |-> splits[i].amount,
         isPaid |-> IF "isPaid" \in DOMAIN splits[i] THEN splits[i].isPaid ELSE FALSE]]

\* Event.findByIdAndUpdate(id, {$push: {expenses: expenseId}}).
\* Fault: the id pushed a second time.
PushExpenseTwice(evts, eventId, expenseId) ==
    IF eventId \in DOMAIN evts
    THEN [evts EXCEPT ![eventId].expenses = Append(Append(@, expenseId), expenseId)]
    ELSE evts

PushExpense(evts, eventId, expenseId) ==
    IF eventId \in DOMAIN evts
    THEN [evts EXCEPT ![eventId].expenses = Append(@, expenseId)]
    ELSE evts

\* body('amount').isFloat({ min: 0 })
ValidAmount(amount) == amount >= 0

\* Fault: the route without isCommunityMember's members test.
CreateHandlerAnyUser(exps, evts, id, now, user, b) ==
    IF ~ValidAmount(b.amount)
    THEN [status |-> 400, body |-> "Valid amount required", expenses |-> exps, events |-> evts]
    ELSE IF b.communityId \notin DOMAIN Communities
    THEN [status |-> 404, body |-> "Community not found", expenses |-> exps, events |-> evts]
    ELSE [status |-> 201, body |-> id,
          expenses |-> (id :> [amount       |-> b.amount,
                               paidBy       |-> user,
                               splitBetween |-> NewSplits(b.splitBetween),
                               community    |-> b.communityId,
                               event        |-> b.eventId,
                               createdAt    |-> now]) @@ exps,
          events |-> IF b.eventId # Undefined
                     THEN PushExpense(evts, b.eventId, id)
                     ELSE evts]

\* now is the value of Date.now() when the document is constructed.
CreateHandler(exps, evts, id, now, user, b) ==
    IF ~ValidAmount(b.amount)
    THEN [status |-> 400, body |-> "Valid amount required", expenses |-> exps, events |-> evts]
    ELSE IF b.communityId \notin DOMAIN Communities
    THEN [status |-> 404, body |-> "Community not found", expenses |-> exps, events |-> evts]
    ELSE IF user \notin Communities[b.communityId].members
    THEN [status |-> 403, body |-> "Not a member of this community",
          expenses |-> exps, events |-> evts]
    ELSE [status |-> 201, body |-> id,
          expenses |-> (id :> [amount       |-> b.amount,
                               paidBy       |-> user,
                               splitBetween |-> NewSplits(b.splitBetween),
                               community    |-> b.communityId,
                               event        |-> b.eventId,
                               createdAt    |-> now]) @@ exps,
          events |-> IF b.eventId # Undefined
                     THEN PushExpense(evts, b.eventId, id)
                     ELSE evts]

\* --------------------------- POST /:pollId/vote (routes/notes.js 284-339)
\* Last millisecond of the clock; the polls end before it.
MaxTime == 3

\* endsAt of a poll created without an end date (stored times are >= 1).
NoDate == 0

\* The Poll collection as POST /create leaves it: every option starts with
\* "votes: []".  p1 is a single-choice poll ending at 2, p2 a multiple-choice
\* poll without an end.
Polls ==
    [p1 |-> [options |-> <<[id |-> "o1", votes |-> <<>>], [id |-> "o2", votes |-> <<>>]>>,
             multipleChoice |-> FALSE, endsAt |-> 2],
     p2 |-> [options |-> <<[id |-> "o1", votes |-> <<>>], [id |-> "o2", votes |-> <<>>]>>,
             multipleChoice |-> TRUE, endsAt |-> NoDate]]

PollInputs == {"p1", "p2", "p9"}

\* req.body.optionIds: one id (array FALSE, the id in items[1]) or an array
\* of ids.  o9 is the id of no option.
OptionIdsInputs ==
    { [array |-> FALSE, items |-> <<"o1">>],
      [array |-> FALSE, items |-> <<"o2">>],
      [array |-> FALSE, items |-> <<"o9">>],
      [array |-> TRUE, items |-> <<>>],
      [array |-> TRUE, items |-> <<"o1">>],
      [array |-> TRUE, items |-> <<"o2", "o1">>],
      [array |-> TRUE, items |-> <<"o1", "o1">>] }

\* Array.isArray(optionIds) ? optionIds : [optionIds]  (299)
SelectedOptions(optionIds) ==
    IF optionIds.array THEN optionIds.items ELSE <<optionIds.items[1]>>

\* Fault: the user's earlier votes are kept.
RemoveVotesNever(options, userId) == options

\* poll.options.forEach(option => option.votes = option.votes.filter(...))
\* (307-309)
RemoveVotes(options, userId) ==
    [k \in DOMAIN options |->
        [options[k] EXCEPT !.votes = SelectSeq(@, LAMBDA vote : vote # userId)]]

\* poll.options.id(optionId): the index of the option, 0 when there is none.
OptionIndex(options, optionId) ==
    IF \E k \in DOMAIN options : options[k].id = optionId
    THEN CHOOSE k \in DOMAIN options :
            /\ options[k].id = optionId
            /\ \A j \in DOMAIN options : options[j].id = optionId => k <= j
    ELSE 0

\* option.votes.includes(userId)
Includes(list, x) == \E k \in DOMAIN list : list[k] = x

\* if (option && !option.votes.includes(userId)) option.votes.push(userId)
\* (314-316)
AddVote(options, optionId, userId) ==
    LET k == OptionIndex(options, optionId)
    IN IF k # 0 /\ ~Includes(options[k].votes, userId)
       THEN [options EXCEPT ![k].votes = Append(@, userId)]
       ELSE options

\* selectedOptions.forEach(...) from the n-th id on (312-317)
RECURSIVE AddVotes(_, _, _, _)
AddVotes(options, selectedOptions, n, userId) ==
    IF n > Len(selectedOptions) THEN options
    ELSE AddVotes(AddVote(options, selectedOptions[n], userId),
                  selectedOptions, n + 1, userId)

\* poll.endsAt && new Date() > poll.endsAt  (294)
HasEnded(poll, time) == poll.endsAt # NoDate /\ time > poll.endsAt

\* The handler: its status and the Poll collection it leaves.
PollVoteHandler(pls, time, pollId, userId, optionIds) ==
    IF pollId \notin DOMAIN pls THEN [status |-> 404, polls |-> pls]
    ELSE LET poll == pls[pollId]
             selectedOptions == SelectedOptions(optionIds)
         IN IF HasEnded(poll, time) THEN [status |-> 400, polls |-> pls]
            ELSE IF ~poll.multipleChoice /\ Len(selectedOptions) > 1
            THEN [status |-> 400, polls |-> pls]
            ELSE [status |-> 200,
                  polls |-> [pls EXCEPT ![pollId].options =
                                AddVotes(RemoveVotes(@, userId), selectedOptions, 1, userId)]]

\* ------------------------- POST /:threadId/vote (routes/notes.js 556-594)
\* The Thread collection as POST /create leaves it: nobody has voted.
Threads ==
    [t1 |-> [upvotes |-> <<>>, downvotes |-> <<>>],
     t2 |-> [upvotes |-> <<>>, downvotes |-> <<>>]]

ThreadInputs == {"t1", "t2", "t9"}

\* req.body.voteType; the handler tests for "upvote" and "downvote" only.
VoteTypeInputs == {"upvote", "downvote", "sideways"}

\* list.indexOf(x): the position from 0 of the first x, -1 when there is none.
IndexOf(list, x) ==
    IF \E k \in DOMAIN list : list[k] = x
    THEN (CHOOSE k \in DOMAIN list :
            /\ list[k] = x
            /\ \A j \in DOMAIN list : list[j] = x => k <= j) - 1
    ELSE -1

\* list.splice(index, 1)
Splice(list, index) ==
    [k \in 1..(Len(list) - 1) |-> IF k <= index THEN list[k] ELSE list[k + 1]]

\* Fault: the vote is added and the opposite vote stays.
CastKeepsOpposite(mine, other, userId) ==
    IF IndexOf(mine, userId) > -1
    THEN [mine |-> Splice(mine, IndexOf(mine, userId)), other |-> other]
    ELSE [mine |-> Append(mine, userId), other |-> other]

\* One branch of the handler (569-577, 578-587): "mine" is the list of the vote type
\* sent, "other" the opposite list.
Cast(mine, other, userId) ==
    IF IndexOf(mine, userId) > -1
    THEN [mine |-> Splice(mine, IndexOf(mine, userId)), other |-> other]
    ELSE [mine  |-> Append(mine, userId),
          other |-> IF IndexOf(other, userId) > -1
                    THEN Splice(other, IndexOf(other, userId))
                    ELSE other]

\* The handler: its status and the Thread collection it leaves.
ThreadVoteHandler(thrs, threadId, userId, voteType) ==
    IF threadId \notin DOMAIN thrs THEN [status |-> 404, threads |-> thrs]
    ELSE LET thread == thrs[threadId]
             up   == Cast(thread.upvotes, thread.downvotes, userId)
             down == Cast(thread.downvotes, thread.upvotes, userId)
         IN [status |-> 200,
             threads |->
                IF voteType = "upvote"
                THEN [thrs EXCEPT ![threadId] = [upvotes |-> up.mine, downvotes |-> up.other]]
                ELSE IF voteType = "downvote"
                THEN [thrs EXCEPT ![threadId] = [upvotes |-> down.other, downvotes |-> down.mine]]
                ELSE thrs]

\* ---------------------------------------------------------- the system
Init ==
    /\ expenses = <<>>
    /\ events = [e1 |-> [community |-> "c1", expenses |-> <<>>]]
    /\ nextId = 1
    /\ response = [op |-> "none", status |-> 0]
    /\ pending = NoRequest
    /\ polls = Polls
    /\ threads = Threads
    /\ date = 1

\* The handler's writes reach the collections and its status the client.
Respond(op, r) ==
    /\ expenses' = r.expenses
    /\ events' = r.events
    /\ response' = [op |-> op, status |-> r.status]
    /\ UNCHANGED <<pending, polls, threads, date>>

\* POST /create while fewer than max documents were created.  Each request
\* is served in a later millisecond than the one before: the _id, which
\* counts the documents created, serves as the clock.
CreateUpTo(max) ==
    \E user \in Users, communityId \in CommunityInputs, eventId \in EventInputs,
       amount \in AmountInputs, splitBetween \in SplitInputs :
        LET b == [amount |-> amount, communityId |-> communityId,
                  eventId |-> eventId, splitBetween |-> splitBetween]
            r == CreateHandler(expenses, events, nextId, nextId, user, b)
        IN /\ nextId <= max
           /\ Respond("create", r)
           /\ nextId' = IF r.status = 201 THEN nextId + 1 ELSE nextId

Create == CreateUpTo(MaxExpenses)

List ==
    \E q \in QueryInputs :
        \E r \in ListHandler(expenses, events, q) :
            /\ Respond("list", r)
            /\ UNCHANGED nextId

GetSummary ==
    \E user \in Users, q \in QueryInputs :
        /\ Respond("summary", SummaryHandler(expenses, events, q, user))
        /\ UNCHANGED nextId

MarkPaid ==
    \E user \in Users, expenseId \in ExpenseIds, userId \in Users :
        /\ Respond("pay", PayHandler(expenses, events, expenseId, userId, user))
        /\ UNCHANGED nextId

Delete ==
    \E user \in Users, expenseId \in ExpenseIds :
        /\ Respond("delete", DeleteHandler(expenses, events, expenseId, user))
        /\ UNCHANGED nextId

Next == Create \/ List \/ GetSummary \/ MarkPaid \/ Delete

\* Requests served one after the other.
Spec == Init /\ [][Next]_vars

\* The values Date.now() can have when document id is constructed: a later
\* millisecond than every document before it, or the millisecond of the
\* newest document in the collection.
Clock(exps, id) ==
    {id} \cup { exps[e].createdAt : e \in { d \in DOMAIN exps :
                    \A o \in DOMAIN exps : exps[o].createdAt <= exps[d].createdAt } }

\* POST /create with the further request bodies, at any reading of the clock.
CreateWide ==
    \E user \in Users, b \in WideInputs, now \in Clock(expenses, nextId) :
        LET r == CreateHandler(expenses, events, nextId, now, user, b)
        IN /\ nextId <= MaxExpenses
           /\ Respond("create", r)
           /\ nextId' = IF r.status = 201 THEN nextId + 1 ELSE nextId

NextWide == CreateWide \/ List \/ GetSummary \/ MarkPaid \/ Delete

\* Requests served one after the other, all request bodies and clock
\* readings considered.
SpecWide == Init /\ [][NextWide]_vars

\* ------------------------------------------- handlers suspended at awaits
\* A handler that awaits a second database call lets another request run
\* in between.  One request at a time is followed through its awaits, while
\* other requests run to completion around it.  The paths that answer right
\* after their first database call are the ones the whole handlers have.

\* Fault: save() writing the whole document as it was read, with the flag set.
SaveWholeDocument(exps, expenseId, i, doc) ==
    IF expenseId \in DOMAIN exps
    THEN [exps EXCEPT ![expenseId] = [doc EXCEPT !.splitBetween[i].isPaid = TRUE]]
    ELSE exps

\* expense.save() of a document read earlier, whose only modified path is
\* splitBetween.i.isPaid: the update sets that path alone, and finds nothing
\* to update when the document is gone.
SaveIsPaid(exps, expenseId, i, doc) ==
    IF expenseId \in DOMAIN exps THEN SetPaid(exps, expenseId, i) ELSE exps

\* PUT pay, up to "await Expense.findById" and the tests that follow (146-166).
PayRead ==
    \E user \in Users, expenseId \in DOMAIN expenses, userId \in Users :
        LET doc == expenses[expenseId]
            i   == FindSplit(doc.splitBetween, userId)
        IN /\ pending = NoRequest
           /\ i # 0
           /\ MayPay(doc, doc.splitBetween[i], user)
           /\ pending' = [op |-> "pay", expenseId |-> expenseId, i |-> i, doc |-> doc]
           /\ UNCHANGED <<expenses, events, nextId, response, polls, threads, date>>

\* PUT pay, "await expense.save()" and the answer (167-172).  Nothing is sent
\* when the flag was true already; a modified document that is gone makes
\* save() throw.
PaySave ==
    /\ pending.op = "pay"
    /\ LET modified == ~pending.doc.splitBetween[pending.i].isPaid
           gone     == pending.expenseId \notin DOMAIN expenses
       IN /\ expenses' = IF modified
                         THEN SaveIsPaid(expenses, pending.expenseId, pending.i, pending.doc)
                         ELSE expenses
          /\ response' = [op |-> "pay", status |-> IF modified /\ gone THEN 500 ELSE 200]
    /\ pending' = NoRequest
    /\ UNCHANGED <<events, nextId, polls, threads, date>>

\* DELETE, up to "await Expense.findById" and the permission test (178-186).
DeleteRead ==
    \E user \in Users, expenseId \in DOMAIN expenses :
        /\ pending = NoRequest
        /\ MayDelete(expenses[expenseId], user)
        /\ pending' = [op |-> "delete", expenseId |-> expenseId,
                       doc |-> expenses[expenseId], pulled |-> FALSE]
        /\ UNCHANGED <<expenses, events, nextId, response, polls, threads, date>>

\* DELETE, "await Event.findByIdAndUpdate(... $pull ...)" (189-193).
DeletePull ==
    /\ pending.op = "delete"
    /\ ~pending.pulled
    /\ events' = IF pending.doc.event # Undefined
                 THEN PullExpense(events, pending.doc.event, pending.expenseId)
                 ELSE events
    /\ pending' = [pending EXCEPT !.pulled = TRUE]
    /\ UNCHANGED <<expenses, nextId, response, polls, threads, date>>

\* DELETE, "await expense.deleteOne()" and the answer (195-196).
DeleteRemove ==
    /\ pending.op = "delete"
    /\ pending.pulled
    /\ expenses' = Without(expenses, pending.expenseId)
    /\ response' = [op |-> "delete", status |-> 200]
    /\ pending' = NoRequest
    /\ UNCHANGED <<events, nextId, polls, threads, date>>

\* POST /create naming an event, up to "await expense.save()" (50-67).
CreateSave ==
    \E user \in Users, communityId \in CommunityInputs, eventId \in EventInputs \ {Undefined},
       amount \in AmountInputs, splitBetween \in SplitInputs :
        LET b == [amount |-> amount, communityId |-> communityId,
                  eventId |-> eventId, splitBetween |-> splitBetween]
            r == CreateHandler(expenses, events, nextId, nextId, user, b)
        IN /\ pending = NoRequest
           /\ nextId <= MaxOverlapExpenses
           /\ r.status = 201
           /\ expenses' = r.expenses
           /\ nextId' = nextId + 1
           /\ pending' = [op |-> "create", expenseId |-> nextId, eventId |-> eventId]
           /\ UNCHANGED <<events, response, polls, threads, date>>

\* POST /create, "await Event.findByIdAndUpdate(... $push ...)" and the
\* answer (70-79).
CreatePush ==
    /\ pending.op = "create"
    /\ events' = PushExpense(events, pending.eventId, pending.expenseId)
    /\ response' = [op |-> "create", status |-> 201]
    /\ pending' = NoRequest
    /\ UNCHANGED <<expenses, nextId, polls, threads, date>>

\* Fault: the entry saved is taken back when the $push fails.
CreatePushRollsBack ==
    /\ pending.op = "create"
    /\ expenses' = Without(expenses, pending.expenseId)
    /\ response' = [op |-> "create", status |-> 500]
    /\ pending' = NoRequest
    /\ UNCHANGED <<events, nextId, polls, threads, date>>

\* POST /create, "await Event.findByIdAndUpdate(... $push ...)" throws (the
\* database call fails): the catch block answers 500 (80-82).
CreatePushFails ==
    /\ pending.op = "create"
    /\ response' = [op |-> "create", status |-> 500]
    /\ pending' = NoRequest
    /\ UNCHANGED <<expenses, events, nextId, polls, threads, date>>

CreateWhole == CreateUpTo(MaxOverlapExpenses)

NextConc ==
    \/ CreateWhole \/ List \/ GetSummary \/ MarkPaid \/ Delete
    \/ PayRead \/ PaySave
    \/ DeleteRead \/ DeletePull \/ DeleteRemove
    \/ CreateSave \/ CreatePush \/ CreatePushFails

\* Requests served around a suspended PUT pay, DELETE or POST /create.
SpecConc == Init /\ [][NextConc]_vars

\* ------------------------------- two PUT pay over a whole-document store
\* The persistence the specification supposes in its section 5: a write
\* replaces the stored document by the one the writer holds, the last write
\* winning.  (save() as the code has it is SaveIsPaid above.)
ReplaceDocument(exps, expenseId, doc) ==
    IF expenseId \in DOMAIN exps THEN [exps EXCEPT ![expenseId] = doc] ELSE exps

\* Fault: the flag of the in-memory document left as it was read.
SplitUntouched(doc, i) == doc

\* split.isPaid = true on the document the handler holds (166).
SplitPaid(doc, i) == [doc EXCEPT !.splitBetween[i].isPaid = TRUE]

\* Two PUT pay requests in flight at once.
PayCalls == {1, 2}

\* The PUT pay requests in flight or answered: call -> [expenseId, i, doc,
\* status], status 0 while the call is suspended before its write.
Calls == IF pending.op = "pays" THEN pending.calls ELSE <<>>

\* PUT pay of call c: findById and the tests that follow (146-166).  A
\* request that fails a test is answered at once.
PayReadWhole ==
    \E c \in PayCalls \ DOMAIN Calls, user \in Users, expenseId \in ExpenseIds,
       userId \in Users :
        LET r == PayHandler(expenses, events, expenseId, userId, user)
        IN IF r.status # 200
           THEN /\ Respond("pay", r)
                /\ UNCHANGED nextId
           ELSE /\ pending' =
                     [op |-> "pays",
                      calls |-> (c :> [expenseId |-> expenseId,
                                       i |-> FindSplit(expenses[expenseId].splitBetween, userId),
                                       doc |-> expenses[expenseId],
                                       status |-> 0]) @@ Calls]
                /\ UNCHANGED <<expenses, events, nextId, response, polls, threads, date>>

\* PUT pay of call c: the write of the whole document and the answer
\* (166-169).
PayWriteWhole ==
    \E c \in DOMAIN Calls :
        /\ Calls[c].status = 0
        /\ expenses' = ReplaceDocument(expenses, Calls[c].expenseId,
                                       SplitPaid(Calls[c].doc, Calls[c].i))
        /\ response' = [op |-> "pay", status |-> 200]
        /\ pending' = [pending EXCEPT !.calls[c] =
                            [expenseId |-> @.expenseId, i |-> @.i, status |-> 200]]
        /\ UNCHANGED <<events, nextId, polls, threads, date>>

\* The answered calls are over; further calls can be made.
PayCallsOver ==
    /\ DOMAIN Calls # {}
    /\ \A c \in DOMAIN Calls : Calls[c].status # 0
    /\ pending' = NoRequest
    /\ UNCHANGED <<expenses, events, nextId, response, polls, threads, date>>

NextWhole == CreateWhole \/ PayReadWhole \/ PayWriteWhole \/ PayCallsOver

\* Creates and two overlapping PUT pay over the whole-document store.
SpecWhole == Init /\ [][NextWhole]_vars

\* ------------------------------------------------- votes on the polls
\* POST /:pollId/vote by any authenticated user.
PollVote ==
    \E user \in Users, pollId \in PollInputs, optionIds \in OptionIdsInputs :
        LET r == PollVoteHandler(polls, date, pollId, user, optionIds)
        IN /\ polls' = r.polls
           /\ response' = [op |-> "pollvote", status |-> r.status]
           /\ UNCHANGED <<expenses, events, nextId, pending, threads, date>>

\* A millisecond passes.
Tick ==
    /\ date < MaxTime
    /\ date' = date + 1
    /\ UNCHANGED <<expenses, events, nextId, response, pending, polls, threads>>

NextPoll == PollVote \/ Tick

\* Poll votes served one after the other while the clock runs.
SpecPoll == Init /\ [][NextPoll]_vars

\* ----------------------------------------------- votes on the threads
\* POST /:threadId/vote by any authenticated user.
ThreadVote ==
    \E user \in Users, threadId \in ThreadInputs, voteType \in VoteTypeInputs :
        LET r == ThreadVoteHandler(threads, threadId, user, voteType)
        IN /\ threads' = r.threads
           /\ response' = [op |-> "threadvote", status |-> r.status]
           /\ UNCHANGED <<expenses, events, nextId, pending, polls, date>>

NextThread == ThreadVote

\* Thread votes served one after the other.
SpecThread == Init /\ [][NextThread]_vars

\* ================================================================ claims
\* Reference quantities, as sums over sets (no loop, no accumulator).
RECURSIVE SetSum(_, _)
SetSum(S, f) ==
    IF S = {} THEN 0
    ELSE LET x == CHOOSE y \in S : TRUE IN f[x] + SetSum(S \ {x}, f)

\* The entries a summary request ranges over.
InScope(exps, q) == {id \in DOMAIN exps : Matches(exps[id], SummaryQuery(q))}

\* Every share <<entry, position>> of the entries ids.
Shares(exps, ids) ==
    UNION {{<<id, i>> : i \in DOMAIN exps[id].splitBetween} : id \in ids}

ShareOf(exps, p) == exps[p[1]].splitBetween[p[2]]

\* The unsettled shares of debtor in the entries of ids that payer paid.
OpenShares(exps, ids, payer, debtor) ==
    {p \in Shares(exps, ids) :
        /\ exps[p[1]].paidBy = payer
        /\ ShareOf(exps, p).user = debtor
        /\ ~ShareOf(exps, p).isPaid}

\* What debtor still owes payer over ids.
Outstanding(exps, ids, payer, debtor) ==
    LET S == OpenShares(exps, ids, payer, debtor)
    IN SetSum(S, [p \in S |-> ShareOf(exps, p).amount])

RefTotalPaid(exps, ids, viewer) ==
    LET S == {id \in ids : exps[id].paidBy = viewer}
    IN SetSum(S, [id \in S |-> exps[id].amount])

RefTotalOwed(exps, ids, viewer) ==
    LET S == Users \ {viewer}
    IN SetSum(S, [u \in S |-> Outstanding(exps, ids, u, viewer)])

RefBalance(exps, ids, viewer, u) ==
    Outstanding(exps, ids, viewer, u) - Outstanding(exps, ids, u, viewer)

\* balances[u] of a summary body, 0 for a missing key.
BalanceOf(summary, u) ==
    IF u \in DOMAIN summary.balances THEN summary.balances[u] ELSE 0

AllSettled(exps, ids) ==
    \A p \in Shares(exps, ids) : ShareOf(exps, p).isPaid

\* The entry of the spec's scenario: amount 100, payer A, shares B:50, C:50,
\* with the given settled flags.
ScenarioEntry(bPaid, cPaid) ==
    [amount |-> 100, paidBy |-> "A",
     splitBetween |-> <<[user |-> "B", amount |-> 50, isPaid |-> bPaid],
                        [user |-> "C", amount |-> 50, isPaid |-> cPaid]>>]

IsScenario(doc, bPaid, cPaid) ==
    [k \in {"amount", "paidBy", "splitBetween"} |-> doc[k]] = ScenarioEntry(bPaid, cPaid)

\* C1: for every store, scope and viewer the summary body equals the
\* reference: totalPaid is the sum of the amounts of the viewer-paid entries,
\* totalOwed the sum of the viewer's unsettled shares in entries paid by
\* others, netBalance their difference, and balances[u] what u still owes
\* the viewer minus what the viewer still owes u (a user without a key has
\* reference 0).  The single entry 100 / A / {B:50, C:50} gives A totalPaid
\* 100 and balances {B:50, C:50}, and gives B totalOwed 50 and balances
\* {A:-50}.  (Checked wherever a summary was served last: GET /summary is
\* always enabled and writes nothing, so that is every reachable store.)
C1_SummaryEqualsReference ==
    response.op = "summary" =>
    /\ \A q \in QueryInputs, viewer \in Users :
        LET s   == Summary(expenses, q, viewer)
            ids == InScope(expenses, q)
        IN /\ s.totalPaid = RefTotalPaid(expenses, ids, viewer)
           /\ s.totalOwed = RefTotalOwed(expenses, ids, viewer)
           /\ s.netBalance = s.totalPaid - s.totalOwed
           /\ DOMAIN s.balances \subseteq Users
           /\ \A u \in Users :
                /\ u \in DOMAIN s.balances =>
                        s.balances[u] = RefBalance(expenses, ids, viewer, u)
                /\ u \notin DOMAIN s.balances =>
                        RefBalance(expenses, ids, viewer, u) = 0
    /\ \A id \in DOMAIN expenses, q \in QueryInputs :
        (InScope(expenses, q) = {id} /\ IsScenario(expenses[id], FALSE, FALSE)) =>
            /\ Summary(expenses, q, "A").totalPaid = 100
            /\ Summary(expenses, q, "A").balances = [u \in {"B", "C"} |-> 50]
            /\ Summary(expenses, q, "B").totalOwed = 50
            /\ Summary(expenses, q, "B").balances = [u \in {"A"} |-> -50]

\* A summary was served over the scenario's single entry.
C1_Witness ==
    /\ response.op = "summary"
    /\ \E id \in DOMAIN expenses :
        DOMAIN expenses = {id} /\ IsScenario(expenses[id], FALSE, FALSE)

\* C2 as stated: whenever A paid an entry holding an unsettled share of
\* amount X for another user B, A's summary has balances[B] = X and B's
\* summary has balances[A] = -X.
C2_SymmetryAsStated ==
    response.op = "summary" =>
    \A q \in QueryInputs, a \in Users, b \in Users :
        a # b =>
            \A p \in OpenShares(expenses, InScope(expenses, q), a, b) :
                LET x == ShareOf(expenses, p).amount
                IN /\ b \in DOMAIN Summary(expenses, q, a).balances
                   /\ Summary(expenses, q, a).balances[b] = x
                   /\ a \in DOMAIN Summary(expenses, q, b).balances
                   /\ Summary(expenses, q, b).balances[a] = -x

\* C2, amended: whenever A paid an entry in the scope holding an unsettled
\* share of amount X for another user B, both summaries carry the
\* counterparty key and balances_A[B] = -balances_B[A]; the two values are
\* +X and -X when that share is the only unsettled share between A and B in
\* the scope (debts of several entries, in either direction, are netted).
C2_SymmetryNetted ==
    response.op = "summary" =>
    \A q \in QueryInputs, a \in Users, b \in Users :
        a # b =>
            LET ids == InScope(expenses, q)
                sa  == Summary(expenses, q, a)
                sb  == Summary(expenses, q, b)
            IN \A p \in OpenShares(expenses, ids, a, b) :
                /\ b \in DOMAIN sa.balances
                /\ a \in DOMAIN sb.balances
                /\ sa.balances[b] = -sb.balances[a]
                /\ (OpenShares(expenses, ids, a, b) \cup OpenShares(expenses, ids, b, a) = {p}) =>
                        /\ sa.balances[b] = ShareOf(expenses, p).amount
                        /\ sb.balances[a] = -ShareOf(expenses, p).amount

\* A summary was served while A and B each hold an unsettled share in an
\* entry the other one paid.
C2_Witness ==
    /\ response.op = "summary"
    /\ OpenShares(expenses, DOMAIN expenses, "A", "B") # {}
    /\ OpenShares(expenses, DOMAIN expenses, "B", "A") # {}

\* C3: when every share of the entries in scope is settled, the summary of
\* every viewer has totalOwed = 0 and a balances map without any key.
C3_AllSettledNothingOutstanding ==
    response.op = "summary" =>
    \A q \in QueryInputs, viewer \in Users :
        AllSettled(expenses, InScope(expenses, q)) =>
            /\ Summary(expenses, q, viewer).totalOwed = 0
            /\ DOMAIN Summary(expenses, q, viewer).balances = {}

\* A summary was served over a store whose entries have shares, all settled.
C3_Witness ==
    /\ response.op = "summary"
    /\ Shares(expenses, DOMAIN expenses) # {}
    /\ AllSettled(expenses, DOMAIN expenses)

\* C4 as stated: when every share of the entries in scope is settled, the
\* summary of every viewer has totalPaid = 0.
C4_AllSettledTotalPaidZero ==
    response.op = "summary" =>
    \A q \in QueryInputs, viewer \in Users :
        AllSettled(expenses, InScope(expenses, q)) =>
            Summary(expenses, q, viewer).totalPaid = 0

\* C4, amended: when every share of the entries in scope is settled,
\* totalPaid is still the sum of the amounts of the entries the viewer paid
\* (settlement does not reduce it) and netBalance equals totalPaid.
C4_AllSettledTotalPaidGross ==
    response.op = "summary" =>
    \A q \in QueryInputs, viewer \in Users :
        LET ids == InScope(expenses, q)
            s   == Summary(expenses, q, viewer)
        IN AllSettled(expenses, ids) =>
            /\ s.totalPaid = RefTotalPaid(expenses, ids, viewer)
            /\ s.netBalance = s.totalPaid

\* A summary was served over a store with an entry A paid whose shares are
\* all settled.
C4_Witness ==
    /\ response.op = "summary"
    /\ AllSettled(expenses, DOMAIN expenses)
    /\ \E id \in DOMAIN expenses :
        expenses[id].paidBy = "A" /\ expenses[id].amount > 0

\* The outcome of PUT /:expenseId/pay/:userId on the present store.
Pay(expenseId, userId, user) == PayHandler(expenses, events, expenseId, userId, user)

HasShare(expenseId, userId) ==
    /\ expenseId \in DOMAIN expenses
    /\ \E i \in DOMAIN expenses[expenseId].splitBetween :
            expenses[expenseId].splitBetween[i].user = userId

\* C5: a summary served, then a successful settlement of B's share in an
\* entry A paid, then the summary again: the share is settled and out of A's
\* balances (balances_A[B] has dropped by the share's amount if it was
\* unsettled), and the totalPaid of every viewer and scope is what it was.
\* For the single entry 100 / A / {B:50, C:50}, settling B leaves A with
\* balances {C:50} and totalPaid 100.
C5_SettlementLeavesTotalPaid ==
    response.op = "summary" =>
    /\ \A expenseId \in ExpenseIds, userId \in Users, user \in Users :
        LET r == Pay(expenseId, userId, user) IN
        r.status = 200 =>
            LET payer == expenses[expenseId].paidBy
                i     == FindSplit(expenses[expenseId].splitBetween, userId)
                share == expenses[expenseId].splitBetween[i]
            IN /\ \A q \in QueryInputs, viewer \in Users :
                    Summary(r.expenses, q, viewer).totalPaid
                        = Summary(expenses, q, viewer).totalPaid
               /\ r.expenses[expenseId].splitBetween[i].isPaid
               /\ userId # payer =>
                    \A q \in QueryInputs :
                        expenseId \in InScope(expenses, q) =>
                            BalanceOf(Summary(r.expenses, q, payer), userId)
                                = BalanceOf(Summary(expenses, q, payer), userId)
                                    - (IF share.isPaid THEN 0 ELSE share.amount)
    /\ \A id \in DOMAIN expenses, user \in {"A", "B"} :
        (DOMAIN expenses = {id} /\ IsScenario(expenses[id], FALSE, FALSE)) =>
            LET r == Pay(id, "B", user)
                s == Summary(r.expenses, [communityId |-> "c1", eventId |-> Undefined], "A")
            IN /\ r.status = 200
               /\ s.balances = [u \in {"C"} |-> 50]
               /\ s.totalPaid = 100

\* B's share of the scenario's single entry has just been settled.
C5_Witness ==
    /\ response = [op |-> "pay", status |-> 200]
    /\ \E id \in DOMAIN expenses :
        DOMAIN expenses = {id} /\ IsScenario(expenses[id], TRUE, FALSE)

\* C6: on an existing entry and an existing share, markSettled succeeds
\* exactly for the entry's payer and the share's debtor; every other
\* requester, the debtor of another share of the entry included, gets 403 and
\* nothing is written.
C6_OnlyPartiesSettle ==
    \A expenseId \in ExpenseIds, userId \in Users, user \in Users :
        HasShare(expenseId, userId) =>
            LET r == Pay(expenseId, userId, user)
                party == user = expenses[expenseId].paidBy \/ user = userId
            IN /\ r.status = 200 <=> party
               /\ ~party => /\ r.status = 403
                            /\ r.expenses = expenses
                            /\ r.events = events

\* A settlement was refused while an entry holds unsettled shares of two
\* debtors, neither of them its payer (each is a third party to the other's
\* share).
C6_Witness ==
    /\ response = [op |-> "pay", status |-> 403]
    /\ \E id \in DOMAIN expenses :
        /\ IsScenario(expenses[id], FALSE, FALSE)
        /\ Pay(id, "B", "C").status = 403

\* C7: markSettled is idempotent: after a successful call, the same call
\* again succeeds and leaves the store as the first call left it.
C7_SettleTwiceIsSettleOnce ==
    \A expenseId \in ExpenseIds, userId \in Users, user \in Users :
        LET r1 == Pay(expenseId, userId, user) IN
        r1.status = 200 =>
            LET r2 == PayHandler(r1.expenses, r1.events, expenseId, userId, user)
            IN /\ r2.status = 200
               /\ r2.expenses = r1.expenses
               /\ r2.events = r1.events

\* A settlement succeeded on a store where repeating a settlement changes
\* nothing (the share it names is settled already).
C7_Witness ==
    /\ response = [op |-> "pay", status |-> 200]
    /\ \E expenseId \in DOMAIN expenses, userId \in Users :
        /\ HasShare(expenseId, userId)
        /\ Pay(expenseId, userId, expenses[expenseId].paidBy).status = 200
        /\ Pay(expenseId, userId, expenses[expenseId].paidBy).expenses = expenses

\* C8: markSettled answers 404 when the entry id is unknown and when the
\* entry has no share of the given user, whoever asks, and writes nothing.
C8_MissingEntryOrShareNotFound ==
    \A expenseId \in ExpenseIds, userId \in Users, user \in Users :
        ~HasShare(expenseId, userId) =>
            /\ Pay(expenseId, userId, user).status = 404
            /\ Pay(expenseId, userId, user).expenses = expenses
            /\ Pay(expenseId, userId, user).events = events

\* A settlement was answered 404 while an entry is stored that lacks a share
\* of some user.
C8_Witness ==
    /\ response = [op |-> "pay", status |-> 404]
    /\ \E expenseId \in DOMAIN expenses, userId \in Users :
        ~HasShare(expenseId, userId)

\* C9: once a share of a stored entry is settled it stays settled for as
\* long as the entry is stored, whatever requests are served and however
\* they overlap at their awaits.
C9_SettledStaysSettled ==
    [][\A id \in DOMAIN expenses :
        id \in DOMAIN expenses' =>
            \A i \in DOMAIN expenses[id].splitBetween :
                expenses[id].splitBetween[i].isPaid =>
                    /\ i \in DOMAIN expenses'[id].splitBetween
                    /\ expenses'[id].splitBetween[i].isPaid]_vars

\* A PUT pay is suspended before its save() with a document read when a
\* share that is settled by now was not settled yet.
C9_Witness ==
    /\ pending.op = "pay"
    /\ pending.expenseId \in DOMAIN expenses
    /\ \E j \in DOMAIN pending.doc.splitBetween :
        /\ j # pending.i
        /\ ~pending.doc.splitBetween[j].isPaid
        /\ expenses[pending.expenseId].splitBetween[j].isPaid

\* The outcome of DELETE /:expenseId on the present store.
Del(expenseId, user) == DeleteHandler(expenses, events, expenseId, user)

\* C10: deleting a stored entry succeeds exactly for its payer; every other
\* requester, a debtor of the entry included, gets 403 and the entry and the
\* event's entry list stay as they are.
C10_OnlyPayerDeletes ==
    \A expenseId \in DOMAIN expenses, user \in Users :
        LET r == Del(expenseId, user)
            payer == user = expenses[expenseId].paidBy
        IN /\ r.status = 200 <=> payer
           /\ ~payer => /\ r.status = 403
                        /\ r.expenses = expenses
                        /\ r.events = events

\* A delete was refused while an entry registered with the event has a
\* debtor who is not its payer.
C10_Witness ==
    /\ response = [op |-> "delete", status |-> 403]
    /\ \E id \in DOMAIN expenses :
        /\ expenses[id].event = "e1"
        /\ \E k \in DOMAIN events["e1"].expenses : events["e1"].expenses[k] = id
        /\ \E i \in DOMAIN expenses[id].splitBetween :
            /\ expenses[id].splitBetween[i].user # expenses[id].paidBy
            /\ Del(id, expenses[id].splitBetween[i].user).status = 403

\* Some event's entry list holds the id.
Registered(evts, id) ==
    \E e \in DOMAIN evts : \E k \in DOMAIN evts[e].expenses : evts[e].expenses[k] = id

Cre(user, b, now) == CreateHandler(expenses, events, nextId, now, user, b)

\* C12: create answers 400 to every request whose amount is not strictly
\* positive, zero included, and stores nothing; every stored entry has an
\* amount above zero.  (The requests are tried on the stores a create has
\* just been served on.)
C12_NonPositiveAmountRejected ==
    /\ \A id \in DOMAIN expenses : expenses[id].amount > 0
    /\ response.op = "create" =>
            \A user \in Users, b \in WideInputs, now \in Clock(expenses, nextId) :
                b.amount <= 0 =>
                    LET r == Cre(user, b, now)
                    IN /\ r.status = 400
                       /\ r.expenses = expenses
                       /\ r.events = events

\* How many times the list holds x.
Count(list, x) == Cardinality({ k \in DOMAIN list : list[k] = x })

\* C13: a create answered 201 that names an event leaves the new id once in
\* that event's entry list, behind the ids the list held, and leaves every
\* other event as it was; a create answered 201 that names no event leaves
\* every event as it was.
C13_CreateRegistersOnce ==
    \A user \in Users, communityId \in CommunityInputs, eventId \in EventInputs,
       amount \in AmountInputs, splitBetween \in SplitInputs :
        LET b == [amount |-> amount, communityId |-> communityId,
                  eventId |-> eventId, splitBetween |-> splitBetween]
            r == Cre(user, b, nextId)
        IN r.status = 201 =>
            IF eventId = Undefined
            THEN r.events = events
            ELSE /\ Count(r.events[eventId].expenses, nextId) = 1
                 /\ Len(r.events[eventId].expenses) = Len(events[eventId].expenses) + 1
                 /\ \A k \in DOMAIN events[eventId].expenses :
                        r.events[eventId].expenses[k] = events[eventId].expenses[k]
                 /\ r.events[eventId].community = events[eventId].community
                 /\ \A e \in DOMAIN events \ {eventId} : r.events[e] = events[e]

\* A create was answered 201; an entry that names event e1 is once in the
\* event's list and an entry that names no event is in no list.
C13_Witness ==
    /\ response = [op |-> "create", status |-> 201]
    /\ \E id \in DOMAIN expenses :
        /\ expenses[id].event = "e1"
        /\ Count(events["e1"].expenses, id) = 1
    /\ \E id \in DOMAIN expenses :
        /\ expenses[id].event = Undefined
        /\ ~Registered(events, id)

\* C14: no entry a list returns is of a community other than the requested
\* communityId, and none is of an event other than the requested eventId,
\* also when the request carries both identifiers.
C14_ListWithinRequestedScope ==
    \A q \in QueryInputs :
        \A r \in ListHandler(expenses, events, q) :
            r.status = 200 =>
                \A k \in DOMAIN r.body :
                    /\ q.communityId # Undefined =>
                            expenses[r.body[k]].community = q.communityId
                    /\ q.eventId # Undefined =>
                            expenses[r.body[k]].event = q.eventId

\* C15: a list request with neither communityId nor eventId has one
\* outcome: status 400 with the message as its body, no entry returned, and
\* the collections as they were.
C15_ListWithoutScopeRejected ==
    \A q \in QueryInputs :
        (q.communityId = Undefined /\ q.eventId = Undefined) =>
            ListHandler(expenses, events, q) =
                { [status |-> 400, body |-> "Community or event ID required",
                   expenses |-> expenses, events |-> events] }

\* A list request was answered 400 while entries are stored.
C15_Witness ==
    /\ response = [op |-> "list", status |-> 400]
    /\ DOMAIN expenses # {}

\* The entries of the scope a list request asks for: the event's when an
\* event is requested, else the community's.
ListScope(exps, q) ==
    { id \in DOMAIN exps :
        IF q.eventId # Undefined THEN exps[id].event = q.eventId
        ELSE exps[id].community = q.communityId }

\* C16: a list answered 200 holds every stored entry of the requested scope,
\* each once and no other, and of two returned entries the one with the later
\* createdAt comes first.
C16_ListNewestFirstAndComplete ==
    \A q \in QueryInputs :
        \A r \in ListHandler(expenses, events, q) :
            r.status = 200 =>
                /\ { r.body[k] : k \in DOMAIN r.body } = ListScope(expenses, q)
                /\ Len(r.body) = Cardinality(ListScope(expenses, q))
                /\ \A j, k \in DOMAIN r.body :
                        expenses[r.body[j]].createdAt > expenses[r.body[k]].createdAt
                            => j < k

\* A list was answered 200 while community c1 holds two entries created in
\* different milliseconds, and so has one order to be listed in.
C16_Witness ==
    /\ response = [op |-> "list", status |-> 200]
    /\ \E a, b \in DOMAIN expenses :
        /\ expenses[a].community = "c1"
        /\ expenses[b].community = "c1"
        /\ expenses[a].createdAt < expenses[b].createdAt
        /\ \A r \in ListHandler(expenses, events, [communityId |-> "c1", eventId |-> Undefined]) :
                r.body = <<b, a>>

\* The document is of the scope the request names; a request that names
\* neither a community nor an event asks for no document.
Requested(doc, q) ==
    /\ q.communityId # Undefined \/ q.eventId # Undefined
    /\ q.communityId # Undefined => doc.community = q.communityId
    /\ q.eventId # Undefined => doc.event = q.eventId

\* C17: for every summary request, one without identifiers included, and
\* every viewer, an entry that is not of the requested community and event
\* does not contribute: the summary is the same with that entry out of the
\* store.
C17_SummaryWithinRequestedScope ==
    \A q \in QueryInputs, userId \in Users, id \in DOMAIN expenses :
        ~Requested(expenses[id], q) =>
            Summary(expenses, q, userId) = Summary(Without(expenses, id), q, userId)

\* C18: no stored entry lists a debtor in two of its shares, whatever
\* shares the create requests supplied.
C18_DebtorAtMostOncePerEntry ==
    \A id \in DOMAIN expenses :
        \A i, j \in DOMAIN expenses[id].splitBetween :
            expenses[id].splitBetween[i].user = expenses[id].splitBetween[j].user
                => i = j

\* C19: every stored entry that references an event is of the community
\* that event is of.
C19_EntryCommunityIsEventCommunity ==
    \A id \in DOMAIN expenses :
        (expenses[id].event # Undefined /\ expenses[id].event \in DOMAIN events) =>
            expenses[id].community = events[expenses[id].event].community

C21_SummaryReadOnly ==
    [][response'.op = "summary" =>
        /\ response'.status = 200
        /\ expenses' = expenses
        /\ events' = events
        /\ nextId' = nextId
        /\ pending' = pending]_vars

\* A summary was served while an entry registered with event e1 holds an
\* unsettled share.
C21_Witness ==
    /\ response = [op |-> "summary", status |-> 200]
    /\ \E id \in DOMAIN expenses :
        /\ expenses[id].event = "e1"
        /\ Registered(events, id)
        /\ \E i \in DOMAIN expenses[id].splitBetween :
                ~expenses[id].splitBetween[i].isPaid

\* A PUT pay answered 200 leaves the events, every other entry, and of its
\* entry every path but the isPaid of the shares of the debtor named, of
\* which one is true afterwards.
PayFrame ==
    \A expenseId \in DOMAIN expenses, userId \in Users, user \in Users :
        LET r == Pay(expenseId, userId, user)
            old == expenses[expenseId]
            new == r.expenses[expenseId]
        IN r.status = 200 =>
            /\ r.events = events
            /\ DOMAIN r.expenses = DOMAIN expenses
            /\ \A e \in DOMAIN expenses \ {expenseId} : r.expenses[e] = expenses[e]
            /\ [new EXCEPT !.splitBetween = old.splitBetween] = old
            /\ DOMAIN new.splitBetween = DOMAIN old.splitBetween
            /\ \A j \in DOMAIN old.splitBetween :
                /\ new.splitBetween[j].user = old.splitBetween[j].user
                /\ new.splitBetween[j].amount = old.splitBetween[j].amount
                /\ old.splitBetween[j].user # userId =>
                        new.splitBetween[j].isPaid = old.splitBetween[j].isPaid
                /\ old.splitBetween[j].isPaid => new.splitBetween[j].isPaid
            /\ \E j \in DOMAIN new.splitBetween :
                /\ new.splitBetween[j].user = userId
                /\ new.splitBetween[j].isPaid

\* The store r of a handler's outcome holds every entry it keeps as the
\* present store has it.
KeepsEntries(r) ==
    \A id \in DOMAIN expenses \cap DOMAIN r.expenses : r.expenses[id] = expenses[id]

\* C22: a successful settlement changes nothing but the settled flag of the
\* named debtor's share, and no other request (a delete, a create, a list,
\* a summary, a PUT pay not answered 200) changes an entry that stays
\* stored, its shares included.  Tried on the stores a PUT pay has just been
\* served on.
C22_SettlementChangesOneFlag ==
    response.op = "pay" =>
        /\ PayFrame
        /\ \A expenseId \in ExpenseIds, user \in Users :
                KeepsEntries(Del(expenseId, user))
        /\ \A user \in Users, communityId \in CommunityInputs, eventId \in EventInputs,
              amount \in AmountInputs, splitBetween \in SplitInputs :
                KeepsEntries(Cre(user, [amount |-> amount, communityId |-> communityId,
                                        eventId |-> eventId,
                                        splitBetween |-> splitBetween], nextId))
        /\ \A q \in QueryInputs :
            /\ \A r \in ListHandler(expenses, events, q) : KeepsEntries(r)
            /\ \A user \in Users :
                    KeepsEntries(SummaryHandler(expenses, events, q, user))
        /\ \A expenseId \in ExpenseIds, userId \in Users, user \in Users :
                Pay(expenseId, userId, user).status # 200 =>
                    KeepsEntries(Pay(expenseId, userId, user))

\* A PUT pay was answered 200 on an entry with two shares, of which one is
\* settled and the other is not.
C22_Witness ==
    /\ response = [op |-> "pay", status |-> 200]
    /\ \E id \in DOMAIN expenses :
        \E i, j \in DOMAIN expenses[id].splitBetween :
            /\ expenses[id].splitBetween[i].isPaid
            /\ ~expenses[id].splitBetween[j].isPaid
            /\ expenses[id].splitBetween[i].user # expenses[id].splitBetween[j].user

\* C23: when a create has saved its entry and the $push that follows fails,
\* the step that answers 500 leaves both collections as they are: the entry
\* saved stays stored, in no event's list, and a list of its community
\* returns it.
C23_CreateNotRolledBack ==
    [][(/\ pending.op = "create"
        /\ response' = [op |-> "create", status |-> 500]
        /\ pending' = NoRequest)
       => /\ expenses' = expenses
          /\ events' = events
          /\ pending.expenseId \in DOMAIN expenses =>
                /\ pending.expenseId \in DOMAIN expenses'
                /\ ~Registered(events', pending.expenseId)
                /\ \A r \in ListHandler(expenses', events',
                                        [communityId |-> expenses'[pending.expenseId].community,
                                         eventId |-> Undefined]) :
                        /\ r.status = 200
                        /\ \E k \in DOMAIN r.body : r.body[k] = pending.expenseId]_vars

\* A create was answered 500 and the entry it saved, which names event e1,
\* is stored and in no event's list.
C23_Witness ==
    /\ response = [op |-> "create", status |-> 500]
    /\ pending = NoRequest
    /\ \E id \in DOMAIN expenses :
        /\ expenses[id].event = "e1"
        /\ ~Registered(events, id)

\* The store without the shares the viewer has in entries the viewer paid.
WithoutOwnShares(exps, viewer) ==
    [id \in DOMAIN exps |->
        IF exps[id].paidBy = viewer
        THEN [exps[id] EXCEPT !.splitBetween =
                SelectSeq(@, LAMBDA split : split.user # viewer)]
        ELSE exps[id]]

\* C24: for every viewer and scope the viewer is not a key of balances,
\* and the shares the viewer has in entries the viewer paid contribute to
\* neither totalOwed nor balances: both are the same with those shares out
\* of the store.
C24_ViewerNotInOwnBalances ==
    response.op = "summary" =>
        \A q \in QueryInputs, userId \in Users :
            LET s == Summary(expenses, q, userId)
                t == Summary(WithoutOwnShares(expenses, userId), q, userId)
            IN /\ userId \notin DOMAIN s.balances
               /\ t.totalOwed = s.totalOwed
               /\ t.balances = s.balances

\* A summary was served while an entry is stored in which its payer has an
\* unsettled share.
C24_Witness ==
    /\ response.op = "summary"
    /\ \E id \in DOMAIN expenses :
        \E i \in DOMAIN expenses[id].splitBetween :
            /\ expenses[id].splitBetween[i].user = expenses[id].paidBy
            /\ ~expenses[id].splitBetween[i].isPaid

\* The user is a member of the community the entry is of.
MemberOfEntry(user, id) ==
    /\ expenses[id].community \in DOMAIN Communities
    /\ user \in Communities[expenses[id].community].members

\* C25: list, summary, settlement and delete succeed only for a requester
\* who is a member of the community of the entries concerned: a list
\* answered 200 returns the requester entries of the requester's
\* communities only, a summary answered 200 ranges over such entries only,
\* and a pay or delete answered 200 is on such an entry.
C25_MembersOnly ==
    \A user \in Users :
        /\ \A q \in QueryInputs :
            /\ \A r \in ListHandler(expenses, events, q) :
                    r.status = 200 =>
                        \A k \in DOMAIN r.body : MemberOfEntry(user, r.body[k])
            /\ SummaryHandler(expenses, events, q, user).status = 200 =>
                    \A id \in InScope(expenses, q) : MemberOfEntry(user, id)
        /\ \A expenseId \in DOMAIN expenses :
            /\ \A userId \in Users :
                    Pay(expenseId, userId, user).status = 200 =>
                        MemberOfEntry(user, expenseId)
            /\ Del(expenseId, user).status = 200 => MemberOfEntry(user, expenseId)

\* C26: for every query and every two distinct users a and b, b is a key
\* of the balances computed for a exactly when a is a key of the balances
\* computed for b, and then the two values are each other's negative.
C26_BalancesAntisymmetric ==
    response.op = "summary" =>
        \A q \in QueryInputs, a \in Users, b \in Users :
            a # b =>
                LET sa == Summary(expenses, q, a)
                    sb == Summary(expenses, q, b)
                IN /\ b \in DOMAIN sa.balances <=> a \in DOMAIN sb.balances
                   /\ b \in DOMAIN sa.balances => sa.balances[b] = -sb.balances[a]

\* A summary was served while, in community c1, B owes A 50 and A owes B
\* 30: the balances of A hold 20 for B, and a key for C as well.
C26_Witness ==
    /\ response.op = "summary"
    /\ LET sa == Summary(expenses, [communityId |-> "c1", eventId |-> Undefined], "A")
       IN /\ "B" \in DOMAIN sa.balances
          /\ sa.balances["B"] = 20
          /\ "C" \in DOMAIN sa.balances

\* C27: whenever no create and no delete is suspended, an id is in an
\* event's entry list exactly when its entry is stored and references that
\* event, and no list holds an id twice.
C27_BackReferencesConsistent ==
    pending.op \notin {"create", "delete"} =>
        \A e \in DOMAIN events, id \in ExpenseIds :
            /\ Count(events[e].expenses, id) <= 1
            /\ Count(events[e].expenses, id) = 1 <=>
                    (id \in DOMAIN expenses /\ expenses[id].event = e)

\* The store r of a handler's outcome holds every entry it keeps with the
\* payer the present store has for it.
KeepsPayers(r) ==
    \A id \in DOMAIN expenses \cap DOMAIN r.expenses :
        r.expenses[id].paidBy = expenses[id].paidBy

\* C28: a create answered 201 stores its entry with the requester as payer
\* and the requester is a member of the entry's community; a create by a
\* non-member of a community that exists is answered 403 (400 when its
\* amount does not pass the validation, which runs first), one naming a
\* community that does not exist 404, and both store nothing; every stored
\* payer is a member of the entry's community and no request changes the
\* payer of a stored entry.
C28_PayerIsCreatingMember ==
    /\ \A id \in DOMAIN expenses : MemberOfEntry(expenses[id].paidBy, id)
    /\ \A user \in Users, b \in WideInputs, now \in Clock(expenses, nextId) :
        LET r == Cre(user, b, now)
            known == b.communityId \in DOMAIN Communities
        IN /\ r.status = 201 =>
                /\ r.expenses[nextId].paidBy = user
                /\ r.expenses[nextId].community = b.communityId
                /\ known /\ user \in Communities[b.communityId].members
           /\ (~known \/ user \notin Communities[b.communityId].members) =>
                /\ r.status = IF ~ValidAmount(b.amount) THEN 400
                              ELSE IF known THEN 403 ELSE 404
                /\ r.expenses = expenses
                /\ r.events = events
           /\ KeepsPayers(r)
    /\ \A expenseId \in ExpenseIds, user \in Users :
        /\ KeepsPayers(Del(expenseId, user))
        /\ \A userId \in Users : KeepsPayers(Pay(expenseId, userId, user))
    /\ \A q \in QueryInputs :
        /\ \A r \in ListHandler(expenses, events, q) : KeepsPayers(r)
        /\ response.op = "summary" =>
                \A user \in Users : KeepsPayers(SummaryHandler(expenses, events, q, user))

\* A create was answered 403 while an entry of c2 paid by its member C is
\* stored.
C28_Witness ==
    /\ response = [op |-> "create", status |-> 403]
    /\ \E id \in DOMAIN expenses :
        /\ expenses[id].community = "c2"
        /\ expenses[id].paidBy = "C"

\* The options of a poll that hold a vote of the user.
VotedOptions(poll, user) ==
    {k \in DOMAIN poll.options : \E n \in DOMAIN poll.options[k].votes :
                                    poll.options[k].votes[n] = user}

\* The option ids a vote request sends, and how many it sends.
SentIds(optionIds) ==
    IF optionIds.array THEN {optionIds.items[n] : n \in DOMAIN optionIds.items}
    ELSE {optionIds.items[1]}

SentCount(optionIds) == IF optionIds.array THEN Len(optionIds.items) ELSE 1

PVote(user, pollId, optionIds) == PollVoteHandler(polls, date, pollId, user, optionIds)

\* C29: whatever vote requests were served, a user is in the votes of at
\* most one option of a single-choice poll and at most once in the votes of
\* any option of any poll; a vote answered 200 leaves the user in the votes
\* of exactly the options sent (all earlier votes of the user in that poll
\* are gone); a vote on a poll past its endsAt, or one sending more than one
\* option to a single-choice poll, is answered 400 and changes no votes.
C29_OneVotePerUser ==
    /\ \A p \in DOMAIN polls, u \in Users :
        /\ ~polls[p].multipleChoice => Cardinality(VotedOptions(polls[p], u)) <= 1
        /\ \A k \in DOMAIN polls[p].options : Count(polls[p].options[k].votes, u) <= 1
    /\ \A user \in Users, pollId \in DOMAIN polls, optionIds \in OptionIdsInputs :
        LET r == PVote(user, pollId, optionIds)
            poll == polls[pollId]
            over == poll.endsAt # NoDate /\ date > poll.endsAt
            many == ~poll.multipleChoice /\ SentCount(optionIds) > 1
        IN /\ r.status = 200 =>
                VotedOptions(r.polls[pollId], user) =
                    {k \in DOMAIN poll.options : poll.options[k].id \in SentIds(optionIds)}
           /\ (over \/ many) => r.status = 400 /\ r.polls = polls

\* A and B have voted in both polls, A moved to B's option in the
\* single-choice poll, and a vote was turned down after the poll's end.
C29_Witness ==
    /\ response = [op |-> "pollvote", status |-> 400]
    /\ date > polls["p1"].endsAt
    /\ polls["p1"].options[1].votes = <<>>
    /\ polls["p1"].options[2].votes = <<"B", "A">>
    /\ VotedOptions(polls["p2"], "A") = {1, 2}

\* The users a vote list holds.
Voters(list) == {list[k] : k \in DOMAIN list}

TVote(user, threadId, voteType) == ThreadVoteHandler(threads, threadId, user, voteType)

\* The list of a thread a vote type names, and the opposite list.
Same(thread, voteType) == IF voteType = "upvote" THEN thread.upvotes ELSE thread.downvotes

Opposite(thread, voteType) == IF voteType = "upvote" THEN thread.downvotes ELSE thread.upvotes

\* C30: whatever upvote and downvote requests were served one after the
\* other, no user is in both the upvotes and the downvotes of a thread and
\* no user is twice in either list; a vote of the type the user has cast
\* already takes the user out of that list (and puts the user in neither),
\* and a vote of the other type, or a first vote, leaves the user in the
\* list of the type sent only.  The other users' votes stay as they are.
C30_VotesDisjoint ==
    /\ \A t \in DOMAIN threads, u \in Users :
        /\ ~(u \in Voters(threads[t].upvotes) /\ u \in Voters(threads[t].downvotes))
        /\ Count(threads[t].upvotes, u) <= 1
        /\ Count(threads[t].downvotes, u) <= 1
    /\ \A user \in Users, t \in DOMAIN threads, voteType \in {"upvote", "downvote"} :
        LET r      == TVote(user, t, voteType)
            before == threads[t]
            after  == r.threads[t]
        IN /\ r.status = 200
           /\ user \in Voters(Same(before, voteType)) =>
                /\ user \notin Voters(Same(after, voteType))
                /\ user \notin Voters(Opposite(after, voteType))
                /\ TVote(user, t, voteType).threads[t] # before
           /\ user \notin Voters(Same(before, voteType)) =>
                /\ user \in Voters(Same(after, voteType))
                /\ user \notin Voters(Opposite(after, voteType))
                /\ ThreadVoteHandler(r.threads, t, user, voteType).threads[t].upvotes
                        = SelectSeq(before.upvotes, LAMBDA v : v # user)
                /\ ThreadVoteHandler(r.threads, t, user, voteType).threads[t].downvotes
                        = SelectSeq(before.downvotes, LAMBDA v : v # user)
           /\ Voters(after.upvotes) \ {user} = Voters(before.upvotes) \ {user}
           /\ Voters(after.downvotes) \ {user} = Voters(before.downvotes) \ {user}

\* A has upvoted thread t1 behind B while C downvoted it, and thread t2
\* holds a downvote of A.
C30_Witness ==
    /\ response = [op |-> "threadvote", status |-> 200]
    /\ threads["t1"].upvotes = <<"B", "A">>
    /\ threads["t1"].downvotes = <<"C">>
    /\ threads["t2"].downvotes = <<"A">>

====
